---- MODULE Spec2Model ----
(***************************************************************************)
(* Queue core of loanhub-backend: the ticket state machine and dispatch    *)
(* (QueueService), the booking slot allocator, and the no-show and         *)
(* near-turn sweeps (QueueAutoService), over the rows kept by              *)
(* QueueRepository; and the SSE hub (SSEHub) that fans events out to the   *)
(* connected streams.                                                      *)
(*                                                                         *)
(* Every handler runs in its own goroutine and talks to the database one   *)
(* statement at a time, without a transaction or a lock.  A handler        *)
(* therefore appears twice: as one action named after it, in which it runs *)
(* to its end undisturbed, and as a _Check step (its reads and checks; its *)
(* early returns are the guard) followed by one step per write statement,  *)
(* between which other handlers run.  What a suspended handler has read is *)
(* kept in `pend`.                                                         *)
(*                                                                         *)
(*   Spec         dispatch at one counter, handlers interleaved            *)
(*   BookingSpec  one slot, bookings, walk-ins and sweeps, interleaved     *)
(*   SeqSpec      dispatch calls one after the other, returns recorded     *)
(*   TakeSpec     taking, calling and serving, returns recorded            *)
(*   ReserveSpec  booking and cancelling, returns recorded                 *)
(*   StatusSpec   calling by id, recalling, serving, completing            *)
(*   RecycleSpec  calling and skipping, returns recorded                   *)
(*   TransferSpec transfers between counters, returns recorded             *)
(*   GenSpec      slot generation over ranges of days, with bookings       *)
(*   HubSpec      the hub: streams, deliveries and their lock, interleaved *)
(*   SweepSpec    the no-show sweep among bookings and open streams        *)
(*   NotifySpec   every handler, with display boards listening             *)
(*   LoopSpec     the sweep loops, their stop channel, fair scheduling     *)
(*   FairTakeSpec one counter calling and completing, fair scheduling      *)
(*   CountersSpec two counters of one service calling the next ticket      *)
(*   DesksSpec    counters of two services calling next and by id          *)
(***************************************************************************)
EXTENDS Integers, Sequences, FiniteSets, Bags, TLC

\* ---------------------------------------------------------------- bounds
MaxTickets == 2      \* rows ever inserted into queue_tickets
MaxPending == 1      \* handlers between their reads and their last write
MaxClock   == 3      \* half-hour steps the wall clock is followed for
MaxPerSlot == 1      \* max_booking_per_slot the slots were generated with
MaxSkips   == 3      \* skip_count values a skip is followed from: 0 .. MaxSkips - 1
LastDate   == 5      \* slot generation ranges over the days 1..LastDate
MaxClients == 2      \* connections opened in all
ChanCap    == 1      \* capacity of a connection's channel (50 in the handlers)
MaxSending == 2      \* deliveries in flight at once

\* ------------------------------------------------------------ identities
Members      == {1, 2}          \* member (user) ids taking tickets
StaffUsers   == {9}             \* officer ids acting on counters
Branches     == {1, 2}          \* HQ, MOB01
ServiceTypes == {1, 2}          \* LOAN, DEPOSIT
Dates        == {1, 2}          \* today and tomorrow
SlotTimes    == {1}             \* index into the time-of-day template: "08:30"
Today        == 1

\* The seeded counters: all at HQ; 1, 2 serve LOAN, 3, 4 DEPOSIT, 5 GENERAL.
CounterBranch(c)  == 1
CounterService(c) == IF c \in {1, 2} THEN 1 ELSE IF c \in {3, 4} THEN 2 ELSE 3

SkipLimit         == 3
SlotMinutes       == 30
AutoCancelMinutes == 30
NearlyThreshold   == 3

ActiveStatuses   == {"WAITING", "CALLING", "SERVING"}
TerminalStatuses == {"COMPLETED", "CANCELLED"}
Statuses         == ActiveStatuses \cup TerminalStatuses

VARIABLES
    tickets,    \* queue_tickets: sequence of rows, the id is the index
    counters,   \* service_counters: id -> [status, staff]
    slots,      \* booking_slots: sequence of rows, the id is the index
    clock,      \* time.Now(), in half-hour steps; no two rows are inserted
                \* within the same step
    pend,       \* bag of handlers that have read and not yet finished writing
    ret,        \* what the last call returned (where SeqInit starts the run)
    clients,    \* SSEHub.clients: connection id -> SSEClient
    channels,   \* the channel made for each connection, by connection id
    sending,    \* the deliveries that hold the hub's read lock
    stopChan,   \* QueueAutoService.stopChan: "open" until Stop closes it
    loops       \* the sweep loops Start launched that have not returned

\* The hub.  A step of the queue that pushes no event leaves these as they
\* are; one that does leaves the map and the lock as they are.
hubvars == <<clients, channels, sending>>

vars == <<tickets, counters, slots, clock, pend, ret, clients, channels, sending,
          stopChan, loops>>

\* ------------------------------------------------------------------ rows
\* A nil pointer, an absent id and an empty string are all written 0.
NewTicket(number, qtype, date, branch, service, user, slot, now, priority) ==
    [ number |-> number, qtype |-> qtype, date |-> date, branch |-> branch,
      service |-> service, counter |-> 0, user |-> user, status |-> "WAITING",
      slot |-> slot, issuedAt |-> now, calledAt |-> 0, servingAt |-> 0,
      completedAt |-> 0, calledBy |-> 0, servedBy |-> 0,
      priority |-> priority, skip |-> 0, notify |-> FALSE ]

\* `released` is history, not a column: the decrements applied to the row.
NewSlot(branch, service, date, time) ==
    [ branch |-> branch, service |-> service, date |-> date, time |-> time,
      max |-> MaxPerSlot, cur |-> 0, avail |-> TRUE, released |-> 0 ]

TicketIDs  == DOMAIN tickets
CounterIDs == DOMAIN counters
SlotIDs   == DOMAIN slots

\* ------------------------------------------------- QueueRepository reads
\* Each read returns the set of rows the WHERE clause selects; First()
\* yields gorm.ErrRecordNotFound (nil) exactly when that set is empty.

\* the lookup with the called and served tickets left out
GetWaitingTicketByUser(u, b, s, d) ==
    { i \in TicketIDs : /\ tickets[i].user = u
                        /\ tickets[i].branch = b
                        /\ tickets[i].service = s
                        /\ tickets[i].date = d
                        /\ tickets[i].status = "WAITING" }

GetActiveTicketByUser(u, b, s, d) ==
    { i \in TicketIDs : /\ tickets[i].user = u
                        /\ tickets[i].branch = b
                        /\ tickets[i].service = s
                        /\ tickets[i].date = d
                        /\ tickets[i].status \in ActiveStatuses }

GetActiveBookingByUser(u, b, s, d) ==
    { i \in GetActiveTicketByUser(u, b, s, d) : tickets[i].qtype = "BOOKING" }

\* count + 1, printed after the series letter ("Q-%03d" / "B-%03d")
GetNextTicketNumber(b, qtype, d) ==
    << IF qtype = "BOOKING" THEN "B" ELSE "Q",
       Cardinality({ i \in TicketIDs : /\ tickets[i].branch = b
                                       /\ tickets[i].qtype = qtype
                                       /\ tickets[i].date = d }) + 1 >>

GetWaitingCount(b, s, d, issuedBefore) ==
    Cardinality({ i \in TicketIDs : /\ tickets[i].branch = b
                                    /\ tickets[i].service = s
                                    /\ tickets[i].date = d
                                    /\ tickets[i].status = "WAITING"
                                    /\ tickets[i].issuedAt < issuedBefore })

\* the ordering with the priority column left out: ORDER BY issued_at ASC
OrderedBeforeByIssueOnly(i, j) ==
    tickets[i].issuedAt < tickets[j].issuedAt

\* the ordering with the newest first within a priority: issued_at DESC
OrderedBeforeNewestFirst(i, j) ==
    \/ tickets[i].priority > tickets[j].priority
    \/ /\ tickets[i].priority = tickets[j].priority
       /\ tickets[i].issuedAt > tickets[j].issuedAt

\* ORDER BY priority DESC, issued_at ASC: i sorts strictly before j
OrderedBefore(i, j) ==
    \/ tickets[i].priority > tickets[j].priority
    \/ /\ tickets[i].priority = tickets[j].priority
       /\ tickets[i].issuedAt < tickets[j].issuedAt

\* The rows First() may return: those no selected row sorts strictly before
\* (the order among rows equal in both keys is the database's choice).
GetNextCallableTicket(b, s, d) ==
    LET sel == { i \in TicketIDs : /\ tickets[i].branch = b
                                   /\ tickets[i].service = s
                                   /\ tickets[i].date = d
                                   /\ tickets[i].status = "WAITING" }
    IN  { i \in sel : \A j \in sel : ~OrderedBefore(j, i) }

GetCurrentServingByCounter(c, d) ==
    { i \in TicketIDs : /\ tickets[i].counter = c
                        /\ tickets[i].date = d
                        /\ tickets[i].status \in {"CALLING", "SERVING"} }

GetBookingSlot(b, s, d, t) ==
    { k \in SlotIDs : /\ slots[k].branch = b
                      /\ slots[k].service = s
                      /\ slots[k].date = d
                      /\ slots[k].time = t }

\* ------------------------------------------------ QueueRepository writes
\* Updates(map): the named columns are overwritten, the others kept.
UpdateTicketStatus(tk, id, updates) ==
    [ tk EXCEPT ![id] = [ f \in DOMAIN @ |->
                            IF f \in DOMAIN updates THEN updates[f] ELSE @[f] ] ]

CreateTicket(tk, row) == Append(tk, row)

IncrementBookingSlot(sl, k) ==
    [ sl EXCEPT ![k].cur = @ + 1 ]

DecrementBookingSlot(sl, b, s, d, t) ==
    [ k \in DOMAIN sl |->
        IF /\ sl[k].branch = b /\ sl[k].service = s
           /\ sl[k].date = d /\ sl[k].time = t
        THEN [ sl[k] EXCEPT !.cur = @ - 1, !.released = @ + 1 ]
        ELSE sl[k] ]

\* --------------------------------------------------------- pending calls
\* What a handler holds in its local variables between two statements:
\* the ids it was called with and the columns of the rows it has read.
Req(op, tid, cid, uid) ==
    [ op |-> op, tid |-> tid, cid |-> cid, uid |-> uid,
      b |-> 0, s |-> 0, d |-> 0, t |-> 0, n |-> 0, sid |-> 0, now |-> 0,
      list |-> <<>> ]

\* the columns a sweep keeps of a row it has listed
Snap(i) ==
    [ id |-> i, b |-> tickets[i].branch, s |-> tickets[i].service,
      d |-> tickets[i].date, t |-> tickets[i].slot, at |-> tickets[i].issuedAt ]

Pending       == BagToSet(pend)
PendingOf(ops) == [ r \in { x \in Pending : x.op \in ops } |-> pend[r] ]
CanBegin      == BagCardinality(pend) < MaxPending
Push(r)       == pend' = pend (+) SetToBag({r})
Pop(r)        == pend' = pend (-) SetToBag({r})
Replace(r, q) == pend' = (pend (-) SetToBag({r})) (+) SetToBag({q})

CreateOps == {"CreateWalkin", "CreateBooking"}
\* a ticket row may still be inserted without exceeding MaxTickets
CanCreate ==
    Len(tickets) + BagCardinality(PendingOf(CreateOps)) < MaxTickets

\* what a call returned to its caller
Return(op, args, err) == [ op |-> op, args |-> args, err |-> err ]

NoRet    == Return("none", <<>>, "ok")        \* nothing has been called yet
Untraced == Return("untraced", <<>>, "ok")    \* returns are not being recorded

\* the call returns err to its caller
Returns(op, args, err) ==
    ret' = IF ret.op = "untraced" THEN ret ELSE Return(op, args, err)

\* ------------------------------------------- QueueService: early returns
\* The error each handler returns for its arguments in the current state,
\* its checks taken in source order; "ok" when it goes on to write.
ActiveBranches == Branches      \* the seeder creates every branch active

CreateWalkinErr(u, b, s) ==
    IF b \notin Branches THEN "ErrBranchNotFound"
    ELSE IF b \notin ActiveBranches THEN "ErrBranchClosed"
    ELSE IF s \notin ServiceTypes THEN "ErrServiceTypeNotFound"
    ELSE IF GetActiveTicketByUser(u, b, s, Today) # {} THEN "ErrDuplicateQueue"
    ELSE "ok"

OpenCounterErr(c) ==
    IF c \notin CounterIDs THEN "ErrCounterNotFound"
    ELSE IF counters[c].status = "OPEN" THEN "ErrCounterAlreadyOpen"
    ELSE "ok"

CloseCounterErr(c) ==
    IF c \notin CounterIDs THEN "ErrCounterNotFound" ELSE "ok"

BreakCounterErr(c) ==
    IF c \notin CounterIDs THEN "ErrCounterNotFound"
    ELSE IF counters[c].status # "OPEN" THEN "ErrCounterNotOpen"
    ELSE "ok"

CallNextTicketErr(c) ==
    IF c \notin CounterIDs THEN "ErrCounterNotFound"
    ELSE IF counters[c].status # "OPEN" THEN "ErrCounterNotOpen"
    ELSE IF GetCurrentServingByCounter(c, Today) # {}
         THEN "ErrCounterBusy"     \* fmt.Errorf("counter still has active ticket: ...")
    ELSE IF GetNextCallableTicket(CounterBranch(c), CounterService(c), Today) = {}
         THEN "ErrNoWaitingTicket"
    ELSE "ok"

CallSpecificTicketErr(t, c) ==
    IF t \notin TicketIDs THEN "ErrTicketNotFound"
    ELSE IF tickets[t].status # "WAITING" THEN "ErrInvalidTicketStatus"
    ELSE IF c \notin CounterIDs THEN "ErrCounterNotFound"
    ELSE IF counters[c].status # "OPEN" THEN "ErrCounterNotOpen"
    ELSE "ok"

RecallTicketErr(t) ==
    IF t \notin TicketIDs THEN "ErrTicketNotFound"
    ELSE IF tickets[t].status # "CALLING" THEN "ErrInvalidTicketStatus"
    ELSE "ok"

\* the check letting a ticket that was never called through
ServeTicketErrFromWaiting(t) ==
    IF t \notin TicketIDs THEN "ErrTicketNotFound"
    ELSE IF tickets[t].status \notin {"WAITING", "CALLING"} THEN "ErrInvalidTicketStatus"
    ELSE "ok"

ServeTicketErr(t) ==
    IF t \notin TicketIDs THEN "ErrTicketNotFound"
    ELSE IF tickets[t].status # "CALLING" THEN "ErrInvalidTicketStatus"
    ELSE "ok"

CompleteTicketErr(t) ==
    IF t \notin TicketIDs THEN "ErrTicketNotFound"
    ELSE IF tickets[t].status # "SERVING" /\ tickets[t].status # "CALLING"
         THEN "ErrInvalidTicketStatus"
    ELSE "ok"

SkipTicketErr(t) ==
    IF t \notin TicketIDs THEN "ErrTicketNotFound"
    ELSE IF tickets[t].status # "CALLING" THEN "ErrInvalidTicketStatus"
    ELSE "ok"

TransferTicketErr(t, c) ==
    IF t \notin TicketIDs THEN "ErrTicketNotFound"
    ELSE IF tickets[t].status # "WAITING" /\ tickets[t].status # "CALLING"
         THEN "ErrInvalidTicketStatus"
    ELSE IF c \notin CounterIDs THEN "ErrCounterNotFound"
    ELSE "ok"

\* the checks with the capacity test off by one: > for >=
CreateBookingErrOffByOne(u, b, s, d, t) ==
    IF b \notin Branches THEN "ErrBranchNotFound"
    ELSE IF b \notin ActiveBranches THEN "ErrBranchClosed"
    ELSE IF s \notin ServiceTypes THEN "ErrServiceTypeNotFound"
    ELSE IF GetActiveBookingByUser(u, b, s, d) # {} THEN "ErrDuplicateBooking"
    ELSE IF GetBookingSlot(b, s, d, t) = {} THEN "ErrSlotNotAvailable"
    ELSE LET slot == slots[CHOOSE k \in GetBookingSlot(b, s, d, t) : TRUE]
         IN  IF ~slot.avail \/ slot.cur > slot.max THEN "ErrSlotFull"
             ELSE "ok"

CreateBookingErr(u, b, s, d, t) ==
    IF b \notin Branches THEN "ErrBranchNotFound"
    ELSE IF b \notin ActiveBranches THEN "ErrBranchClosed"
    ELSE IF s \notin ServiceTypes THEN "ErrServiceTypeNotFound"
    ELSE IF GetActiveBookingByUser(u, b, s, d) # {} THEN "ErrDuplicateBooking"
    ELSE IF GetBookingSlot(b, s, d, t) = {} THEN "ErrSlotNotAvailable"
    ELSE LET slot == slots[CHOOSE k \in GetBookingSlot(b, s, d, t) : TRUE]
         IN  IF ~slot.avail \/ slot.cur >= slot.max THEN "ErrSlotFull"
             ELSE "ok"

CancelBookingErr(t, u) ==
    IF t \notin TicketIDs THEN "ErrBookingNotFound"
    ELSE IF tickets[t].user # u THEN "ErrBookingNotFound"
    ELSE IF tickets[t].qtype # "BOOKING" THEN "ErrBookingNotFound"
    ELSE IF tickets[t].status # "WAITING" THEN "ErrBookingNotWaiting"
    ELSE "ok"

CheckinBookingErr(t) ==
    IF t \notin TicketIDs THEN "ErrBookingNotFound"
    ELSE IF tickets[t].qtype # "BOOKING" THEN "ErrBookingNotFound"
    ELSE IF tickets[t].status # "WAITING" THEN "ErrBookingNotWaiting"
    ELSE "ok"

\* ------------------------------------------- QueueService: update maps
CallUpdates(c, staff, now) ==
    [ status |-> "CALLING", counter |-> c, calledAt |-> now, calledBy |-> staff ]

RecallUpdates(now) == [ calledAt |-> now ]

ServeUpdates(staff, now) ==
    [ status |-> "SERVING", servingAt |-> now, servedBy |-> staff ]

CompleteUpdates(now) == [ status |-> "COMPLETED", completedAt |-> now ]

\* the map without the columns that take the ticket off its counter
SkipUpdatesKeepingCounter(skipRead, now) ==
    LET newSkipCount == skipRead + 1
        newStatus    == IF newSkipCount >= SkipLimit THEN "CANCELLED" ELSE "WAITING"
    IN  [ status |-> newStatus, skip |-> newSkipCount,
          completedAt |-> IF newStatus = "CANCELLED" THEN now ELSE 0 ]

\* skipRead is the skip_count the handler read before it computed the map
SkipUpdates(skipRead, now) ==
    LET newSkipCount == skipRead + 1
        newStatus    == IF newSkipCount >= SkipLimit THEN "CANCELLED" ELSE "WAITING"
    IN  [ status |-> newStatus, skip |-> newSkipCount, counter |-> 0,
          calledAt |-> 0, calledBy |-> 0,
          completedAt |-> IF newStatus = "CANCELLED" THEN now ELSE 0 ]

TransferUpdates(newCounter) ==
    [ status |-> "WAITING", counter |-> 0, service |-> CounterService(newCounter),
      calledAt |-> 0, calledBy |-> 0 ]

CancelUpdates(now) == [ status |-> "CANCELLED", completedAt |-> now ]

CheckinUpdates == [ priority |-> 10 ]

NotifySentUpdates == [ notify |-> TRUE ]

WalkinRow(u, b, s, number, now) ==
    NewTicket(number, "WALKIN", Today, b, s, u, 0, now, 0)

BookingRow(u, b, s, d, t, number, now) ==
    NewTicket(number, "BOOKING", d, b, s, u, t, now, 10)

\* ----------------------------------------------------------------- SSEHub
\* Connection ids are handed out in order: the handlers build them from the
\* nanosecond clock, so no id is used twice.
ClientIDs == 1..MaxClients

SSEEvent(name, branch) == [ event |-> name, branch |-> branch ]

NewClient(user, branch, isTV) == [ user |-> user, branch |-> branch, isTV |-> isTV ]

\* the clients the two stream handlers register: a member, a display board
Connecting ==
    { NewClient(u, b, FALSE) : u \in Members, b \in Branches }
        \cup { NewClient(0, b, TRUE) : b \in Branches }

\* make(chan SSEEvent, cap).  `closes` and `panics` are history: the times
\* the channel was closed and the sends attempted on it once closed.
NewChannel == [ buf |-> <<>>, closes |-> 0, panics |-> 0 ]

NewSSEHub ==
    /\ clients  = << >>
    /\ channels = << >>
    /\ sending  = {}

\* ------------------------------------------- SSEHub: the tests and sends
\* SendToUser's test with the member's identity left out
SendToUserMatchAnyMember(client, key) == ~client.isTV

\* BroadcastToBranch's test passing the members only
BroadcastToBranchMatchMembersOnly(client, key) == client.branch = key /\ ~client.isTV

BroadcastToBranchMatch(client, key) == client.branch = key
SendToUserMatch(client, key)        == client.user = key /\ ~client.isTV
BroadcastToTVMatch(client, key)     == client.branch = key /\ client.isTV

Matches(kind, client, key) ==
    CASE kind = "BroadcastToBranch" -> BroadcastToBranchMatch(client, key)
      [] kind = "SendToUser"        -> SendToUserMatch(client, key)
      [] kind = "BroadcastToTV"     -> BroadcastToTVMatch(client, key)

\* The select with the event overwriting the oldest one of a full channel.
SelectOverwriting(ch, event) ==
    IF ch.closes > 0 THEN [ ch EXCEPT !.panics = @ + 1 ]
    ELSE IF Len(ch.buf) < ChanCap THEN [ ch EXCEPT !.buf = Append(@, event) ]
    ELSE [ ch EXCEPT !.buf = Append(Tail(@), event) ]

\* select { case client.Channel <- event: ... default: ... }: the channel
\* after it.  A send on a closed channel panics; on a full one the default
\* branch is taken and the channel is left as it is.
Select(ch, event) ==
    IF ch.closes > 0 THEN [ ch EXCEPT !.panics = @ + 1 ]
    ELSE IF Len(ch.buf) < ChanCap THEN [ ch EXCEPT !.buf = Append(@, event) ]
    ELSE ch

\* BroadcastToBranch, SendToUser or BroadcastToTV from RLock to RUnlock with
\* no other goroutine in between: the channels after the range over the map.
Delivered(ch, kind, key, event) ==
    [ id \in DOMAIN ch |->
        IF id \in DOMAIN clients /\ Matches(kind, clients[id], key)
        THEN Select(ch[id], event)
        ELSE ch[id] ]

\* ------------------------------------------- QueueNotifyService: triggers
\* The channels after each trigger.  The LINE message goes out of the
\* process and is left out.
NotifyQueueUpdate(ch, branchID, eventType) ==
    Delivered(ch, "BroadcastToBranch", branchID, SSEEvent(eventType, branchID))

NotifyTicketCalled(ch, branchID, userID) ==
    NotifyQueueUpdate(Delivered(ch, "SendToUser", userID, SSEEvent("ticket_called", 0)),
                      branchID, "queue_update")

NotifyNearlyTurn(ch, userID) ==
    Delivered(ch, "SendToUser", userID, SSEEvent("nearly_turn", 0))

NotifyBookingCancelled(ch, userID) ==
    Delivered(ch, "SendToUser", userID, SSEEvent("booking_cancelled", 0))

\* --------------------------------------------------- QueueAutoService
\* The goroutines Start launches, by the functions they run.
Loops == {"runAutoCancelLoop", "runReminderLoop", "runNearlyTurnLoop"}

\* ------------------------------------------------------------------ Init
\* The process once it is up: the tables seeded, the hub made, the sweep
\* loops started.
Init ==
    /\ tickets  = <<>>
    /\ counters = [ c \in {1, 2, 3} |-> [ status |-> "CLOSED", staff |-> 0 ] ]
    /\ slots    = << NewSlot(1, 1, Today, 1), NewSlot(1, 1, Today + 1, 1) >>
    /\ clock    = 1
    /\ pend     = EmptyBag
    /\ ret      = Untraced
    /\ NewSSEHub
    /\ stopChan = "open"
    /\ loops    = Loops

\* time passes while nothing is inserted
Tick ==
    /\ clock < MaxClock
    /\ clock' = clock + 1
    /\ UNCHANGED <<tickets, counters, slots, pend, ret>>
    /\ UNCHANGED hubvars
    /\ UNCHANGED <<stopChan, loops>>

\* ---------------------------------------------------------- CreateWalkin
CreateWalkin_Check(u, b, s) ==
    /\ CanBegin /\ CanCreate
    /\ CreateWalkinErr(u, b, s) = "ok"
    /\ Push([ Req("CreateWalkin", 0, 0, u) EXCEPT
                !.b = b, !.s = s, !.n = GetNextTicketNumber(b, "WALKIN", Today)[2] ])
    /\ UNCHANGED <<tickets, counters, slots, clock, ret>>
    /\ UNCHANGED hubvars
    /\ UNCHANGED <<stopChan, loops>>

CreateWalkin_Insert(r) ==
    /\ r.op = "CreateWalkin"
    /\ tickets' = CreateTicket(tickets, WalkinRow(r.uid, r.b, r.s, <<"Q", r.n>>, clock))
    /\ clock' = clock + 1
    /\ Pop(r)
    /\ UNCHANGED <<counters, slots, ret>>
    /\ channels' = NotifyQueueUpdate(channels, r.b, "queue_update")
    /\ UNCHANGED <<clients, sending>>
    /\ UNCHANGED <<stopChan, loops>>

\* ------------------------------------------------------ counter management
\* UpdateCounterStatus writes staff_user_id only when a staff id is passed.
UpdateCounterStatus(ct, c, status, staff) ==
    [ ct EXCEPT ![c] = [ status |-> status,
                         staff  |-> IF staff # 0 THEN staff ELSE @.staff ] ]

\* ------------------------------------------------------------ call & serve
CallNextTicket_Check(c, staff) ==
    /\ CanBegin
    /\ CallNextTicketErr(c) = "ok"
    /\ \E t \in GetNextCallableTicket(CounterBranch(c), CounterService(c), Today) :
          Push(Req("CallNextTicket", t, c, staff))
    /\ UNCHANGED <<tickets, counters, slots, clock, ret>>
    /\ UNCHANGED hubvars
    /\ UNCHANGED <<stopChan, loops>>

CallNextTicket_Update(r) ==
    /\ r.op = "CallNextTicket"
    /\ tickets' = UpdateTicketStatus(tickets, r.tid, CallUpdates(r.cid, r.uid, clock))
    /\ Pop(r)
    /\ UNCHANGED <<counters, slots, clock, ret>>
    /\ channels' = NotifyTicketCalled(channels, CounterBranch(r.cid), tickets[r.tid].user)
    /\ UNCHANGED <<clients, sending>>
    /\ UNCHANGED <<stopChan, loops>>

CallSpecificTicket_Check(t, c, staff) ==
    /\ CanBegin
    /\ CallSpecificTicketErr(t, c) = "ok"
    /\ Push(Req("CallSpecificTicket", t, c, staff))
    /\ UNCHANGED <<tickets, counters, slots, clock, ret>>
    /\ UNCHANGED hubvars
    /\ UNCHANGED <<stopChan, loops>>

CallSpecificTicket_Update(r) ==
    /\ r.op = "CallSpecificTicket"
    /\ tickets' = UpdateTicketStatus(tickets, r.tid, CallUpdates(r.cid, r.uid, clock))
    /\ Pop(r)
    /\ UNCHANGED <<counters, slots, clock, ret>>
    /\ channels' = NotifyTicketCalled(channels, CounterBranch(r.cid), tickets[r.tid].user)
    /\ UNCHANGED <<clients, sending>>
    /\ UNCHANGED <<stopChan, loops>>

RecallTicket_Check(t) ==
    /\ CanBegin
    /\ RecallTicketErr(t) = "ok"
    /\ Push(Req("RecallTicket", t, 0, 0))
    /\ UNCHANGED <<tickets, counters, slots, clock, ret>>
    /\ UNCHANGED hubvars
    /\ UNCHANGED <<stopChan, loops>>

RecallTicket_Update(r) ==
    /\ r.op = "RecallTicket"
    /\ tickets' = UpdateTicketStatus(tickets, r.tid, RecallUpdates(clock))
    /\ Pop(r)
    /\ UNCHANGED <<counters, slots, clock, ret>>
    /\ channels' = IF tickets[r.tid].counter # 0
                   THEN NotifyTicketCalled(channels, tickets[r.tid].branch, tickets[r.tid].user)
                   ELSE channels
    /\ UNCHANGED <<clients, sending>>
    /\ UNCHANGED <<stopChan, loops>>

ServeTicket_Check(t, staff) ==
    /\ CanBegin
    /\ ServeTicketErr(t) = "ok"
    /\ Push(Req("ServeTicket", t, 0, staff))
    /\ UNCHANGED <<tickets, counters, slots, clock, ret>>
    /\ UNCHANGED hubvars
    /\ UNCHANGED <<stopChan, loops>>

ServeTicket_Update(r) ==
    /\ r.op = "ServeTicket"
    /\ tickets' = UpdateTicketStatus(tickets, r.tid, ServeUpdates(r.uid, clock))
    /\ Pop(r)
    /\ UNCHANGED <<counters, slots, clock, ret>>
    /\ channels' = NotifyQueueUpdate(channels, tickets[r.tid].branch, "queue_update")
    /\ UNCHANGED <<clients, sending>>
    /\ UNCHANGED <<stopChan, loops>>

CompleteTicket_Check(t) ==
    /\ CanBegin
    /\ CompleteTicketErr(t) = "ok"
    /\ Push(Req("CompleteTicket", t, 0, 0))
    /\ UNCHANGED <<tickets, counters, slots, clock, ret>>
    /\ UNCHANGED hubvars
    /\ UNCHANGED <<stopChan, loops>>

CompleteTicket_Update(r) ==
    /\ r.op = "CompleteTicket"
    /\ tickets' = UpdateTicketStatus(tickets, r.tid, CompleteUpdates(clock))
    /\ Pop(r)
    /\ UNCHANGED <<counters, slots, clock, ret>>
    /\ channels' = NotifyQueueUpdate(channels, tickets[r.tid].branch, "queue_update")
    /\ UNCHANGED <<clients, sending>>
    /\ UNCHANGED <<stopChan, loops>>

SkipTicket_Check(t) ==
    /\ CanBegin
    /\ t \in TicketIDs => tickets[t].skip < MaxSkips
    /\ SkipTicketErr(t) = "ok"
    /\ Push([ Req("SkipTicket", t, 0, 0) EXCEPT !.n = tickets[t].skip ])
    /\ UNCHANGED <<tickets, counters, slots, clock, ret>>
    /\ UNCHANGED hubvars
    /\ UNCHANGED <<stopChan, loops>>

SkipTicket_Update(r) ==
    /\ r.op = "SkipTicket"
    /\ tickets' = UpdateTicketStatus(tickets, r.tid, SkipUpdates(r.n, clock))
    /\ Pop(r)
    /\ UNCHANGED <<counters, slots, clock, ret>>
    /\ channels' = NotifyQueueUpdate(channels, tickets[r.tid].branch, "queue_update")
    /\ UNCHANGED <<clients, sending>>
    /\ UNCHANGED <<stopChan, loops>>

TransferTicket_Check(t, c) ==
    /\ CanBegin
    /\ TransferTicketErr(t, c) = "ok"
    /\ Push(Req("TransferTicket", t, c, 0))
    /\ UNCHANGED <<tickets, counters, slots, clock, ret>>
    /\ UNCHANGED hubvars
    /\ UNCHANGED <<stopChan, loops>>

TransferTicket_Update(r) ==
    /\ r.op = "TransferTicket"
    /\ tickets' = UpdateTicketStatus(tickets, r.tid, TransferUpdates(r.cid))
    /\ Pop(r)
    /\ UNCHANGED <<counters, slots, clock, ret>>
    /\ channels' = NotifyQueueUpdate(channels, tickets[r.tid].branch, "queue_update")
    /\ UNCHANGED <<clients, sending>>
    /\ UNCHANGED <<stopChan, loops>>

\* ---------------------------------------------------------------- booking
CreateBooking_Check(u, b, s, d, t) ==
    /\ CanBegin /\ CanCreate
    /\ CreateBookingErr(u, b, s, d, t) = "ok"
    /\ Push([ Req("CreateBooking", 0, 0, u) EXCEPT
                !.b = b, !.s = s, !.d = d, !.t = t,
                !.sid = CHOOSE k \in GetBookingSlot(b, s, d, t) : TRUE,
                !.n = GetNextTicketNumber(b, "BOOKING", d)[2] ])
    /\ UNCHANGED <<tickets, counters, slots, clock, ret>>
    /\ UNCHANGED hubvars
    /\ UNCHANGED <<stopChan, loops>>

CreateBooking_Insert(r) ==
    /\ r.op = "CreateBooking"
    /\ tickets' = CreateTicket(tickets,
                      BookingRow(r.uid, r.b, r.s, r.d, r.t, <<"B", r.n>>, clock))
    /\ clock' = clock + 1
    /\ Replace(r, [ r EXCEPT !.op = "CreateBooking.increment" ])
    /\ UNCHANGED <<counters, slots, ret>>
    /\ UNCHANGED hubvars
    /\ UNCHANGED <<stopChan, loops>>

\* The increment's error is logged and the booking is returned all the same.
CreateBooking_Increment(r) ==
    /\ r.op = "CreateBooking.increment"
    /\ \E failed \in BOOLEAN :
          slots' = IF failed THEN slots ELSE IncrementBookingSlot(slots, r.sid)
    /\ Pop(r)
    /\ UNCHANGED <<tickets, counters, clock, ret>>
    /\ UNCHANGED hubvars
    /\ UNCHANGED <<stopChan, loops>>

CancelBooking_Check(t, u) ==
    /\ CanBegin
    /\ CancelBookingErr(t, u) = "ok"
    /\ Push([ Req("CancelBooking", t, 0, u) EXCEPT
                !.b = tickets[t].branch, !.s = tickets[t].service,
                !.d = tickets[t].date, !.t = tickets[t].slot ])
    /\ UNCHANGED <<tickets, counters, slots, clock, ret>>
    /\ UNCHANGED hubvars
    /\ UNCHANGED <<stopChan, loops>>

CancelBooking_Update(r) ==
    /\ r.op = "CancelBooking"
    /\ tickets' = UpdateTicketStatus(tickets, r.tid, CancelUpdates(clock))
    /\ IF r.d # 0 /\ r.t # 0
       THEN Replace(r, [ r EXCEPT !.op = "CancelBooking.decrement" ])
       ELSE Pop(r)
    /\ UNCHANGED <<counters, slots, clock, ret>>
    /\ UNCHANGED hubvars
    /\ UNCHANGED <<stopChan, loops>>

\* The decrement's result is discarded.
CancelBooking_Decrement(r) ==
    /\ r.op = "CancelBooking.decrement"
    /\ \E failed \in BOOLEAN :
          slots' = IF failed THEN slots
                   ELSE DecrementBookingSlot(slots, r.b, r.s, r.d, r.t)
    /\ Pop(r)
    /\ UNCHANGED <<tickets, counters, clock, ret>>
    /\ UNCHANGED hubvars
    /\ UNCHANGED <<stopChan, loops>>

CheckinBooking_Check(t) ==
    /\ CanBegin
    /\ CheckinBookingErr(t) = "ok"
    /\ Push(Req("CheckinBooking", t, 0, 0))
    /\ UNCHANGED <<tickets, counters, slots, clock, ret>>
    /\ UNCHANGED hubvars
    /\ UNCHANGED <<stopChan, loops>>

CheckinBooking_Update(r) ==
    /\ r.op = "CheckinBooking"
    /\ tickets' = UpdateTicketStatus(tickets, r.tid, CheckinUpdates)
    /\ Pop(r)
    /\ UNCHANGED <<counters, slots, clock, ret>>
    /\ channels' = NotifyQueueUpdate(channels, tickets[r.tid].branch, "queue_update")
    /\ UNCHANGED <<clients, sending>>
    /\ UNCHANGED <<stopChan, loops>>

\* ----------------------------------------------------------------- sweeps
RECURSIVE InIDOrder(_)
InIDOrder(S) ==
    IF S = {} THEN <<>>
    ELSE LET m == CHOOSE x \in S : \A y \in S : x <= y
         IN  <<Snap(m)>> \o InIDOrder(S \ {m})

\* WAITING bookings of today whose slot time plus the grace has passed
GetExpiredBookingTickets(today, now, minutes) ==
    { i \in TicketIDs : /\ tickets[i].qtype = "BOOKING"
                        /\ tickets[i].status = "WAITING"
                        /\ tickets[i].date = today
                        /\ tickets[i].slot * SlotMinutes + minutes < now * SlotMinutes }

GetUnnotifiedWaitingTickets(today) ==
    { i \in TicketIDs : /\ tickets[i].status = "WAITING"
                        /\ tickets[i].date = today
                        /\ ~tickets[i].notify }

SweepRunning(ops) == PendingOf(ops) # EmptyBag

AutoCancelOps == {"autoCancel", "autoCancel.decrement"}

\* one tick of runAutoCancelLoop: the query at the top of the sweep
autoCancelExpiredBookings_Query ==
    /\ "runAutoCancelLoop" \in loops
    /\ CanBegin
    /\ ~SweepRunning(AutoCancelOps)
    /\ GetExpiredBookingTickets(Today, clock, AutoCancelMinutes) # {}
    /\ Push([ Req("autoCancel", 0, 0, 0) EXCEPT
                !.now = clock,
                !.list = InIDOrder(GetExpiredBookingTickets(Today, clock, AutoCancelMinutes)) ])
    /\ UNCHANGED <<tickets, counters, slots, clock, ret>>
    /\ UNCHANGED hubvars
    /\ UNCHANGED <<stopChan, loops>>

\* the loop body up to the status update of the next listed ticket
autoCancelExpiredBookings_Update(r) ==
    /\ r.op = "autoCancel"
    /\ tickets' = UpdateTicketStatus(tickets, Head(r.list).id, CancelUpdates(r.now))
    /\ Replace(r, [ r EXCEPT !.op = "autoCancel.decrement" ])
    /\ UNCHANGED <<counters, slots, clock, ret>>
    /\ UNCHANGED hubvars
    /\ UNCHANGED <<stopChan, loops>>

\* the rest of the loop body: release the slot, then on to the next ticket
autoCancelExpiredBookings_Decrement(r) ==
    /\ r.op = "autoCancel.decrement"
    /\ LET h == Head(r.list) IN
          \E failed \in BOOLEAN :
             slots' = IF failed \/ h.d = 0 \/ h.t = 0 THEN slots
                      ELSE DecrementBookingSlot(slots, h.b, h.s, h.d, h.t)
    /\ IF Tail(r.list) = <<>>
       THEN Pop(r)
       ELSE Replace(r, [ r EXCEPT !.op = "autoCancel", !.list = Tail(@) ])
    /\ channels' = NotifyQueueUpdate(
                       NotifyBookingCancelled(channels, tickets[Head(r.list).id].user),
                       Head(r.list).b, "queue_update")
    /\ UNCHANGED <<tickets, counters, clock, ret>>
    /\ UNCHANGED <<clients, sending>>
    /\ UNCHANGED <<stopChan, loops>>

\* one tick of runNearlyTurnLoop: the query at the top of the sweep
checkNearlyTurn_Query ==
    /\ "runNearlyTurnLoop" \in loops
    /\ CanBegin
    /\ ~SweepRunning({"checkNearlyTurn"})
    /\ GetUnnotifiedWaitingTickets(Today) # {}
    /\ Push([ Req("checkNearlyTurn", 0, 0, 0) EXCEPT
                !.list = InIDOrder(GetUnnotifiedWaitingTickets(Today)) ])
    /\ UNCHANGED <<tickets, counters, slots, clock, ret>>
    /\ UNCHANGED hubvars
    /\ UNCHANGED <<stopChan, loops>>

\* the loop body for the next listed ticket
checkNearlyTurn_Item(r) ==
    /\ r.op = "checkNearlyTurn"
    /\ LET h     == Head(r.list)
           ahead == GetWaitingCount(h.b, h.s, Today, h.at)
       IN  /\ tickets' = IF ahead <= NearlyThreshold /\ ahead > 0
                         THEN UpdateTicketStatus(tickets, h.id, NotifySentUpdates)
                         ELSE tickets
           /\ channels' = IF ahead <= NearlyThreshold /\ ahead > 0
                          THEN NotifyNearlyTurn(channels, tickets[h.id].user)
                          ELSE channels
    /\ IF Tail(r.list) = <<>>
       THEN Pop(r)
       ELSE Replace(r, [ r EXCEPT !.list = Tail(@) ])
    /\ UNCHANGED <<counters, slots, clock, ret>>
    /\ UNCHANGED <<clients, sending>>
    /\ UNCHANGED <<stopChan, loops>>

\* ------------------------------------------------------ the loops' select
\* Each loop waits in select { case <-ticker.C: ...; case <-s.stopChan:
\* return }.  The ticker case is the sweep's query above (a run that finds
\* nothing to do, and every run of the reminder loop, which only sends LINE
\* messages, changes nothing).  A loop is in its select when no run of its
\* sweep is under way.
LoopOps(l) ==
    CASE l = "runAutoCancelLoop" -> AutoCancelOps
      [] l = "runNearlyTurnLoop" -> {"checkNearlyTurn"}
      [] l = "runReminderLoop"   -> {}

\* close(s.stopChan); closing it a second time panics
Stop ==
    /\ stopChan = "open"
    /\ stopChan' = "closed"
    /\ UNCHANGED <<tickets, counters, slots, clock, pend, ret, loops>>
    /\ UNCHANGED hubvars

\* The stop case with a break in place of the return: the select is left
\* and the loop goes round again.
CaseStopChanBreak(l) ==
    /\ l \in loops
    /\ stopChan = "closed"
    /\ ~SweepRunning(LoopOps(l))
    /\ UNCHANGED vars

\* case <-s.stopChan: return
CaseStopChan(l) ==
    /\ l \in loops
    /\ stopChan = "closed"
    /\ ~SweepRunning(LoopOps(l))
    /\ loops' = loops \ {l}
    /\ UNCHANGED <<tickets, counters, slots, clock, pend, ret, stopChan>>
    /\ UNCHANGED hubvars

\* ------------------------------------------------ handlers run to the end
\* The same handlers when no other goroutine runs between their statements:
\* the reads, the checks and every write in one step.

CreateWalkin(u, b, s) ==
    LET err == CreateWalkinErr(u, b, s) IN
    /\ err = "ok" => CanCreate
    /\ IF err = "ok"
       THEN /\ tickets' = CreateTicket(tickets,
                     WalkinRow(u, b, s, GetNextTicketNumber(b, "WALKIN", Today), clock))
            /\ clock' = clock + 1
       ELSE UNCHANGED <<tickets, clock>>
    /\ Returns("CreateWalkin", <<u, b, s>>, err)
    /\ UNCHANGED <<counters, slots, pend>>
    /\ channels' = IF err = "ok" THEN NotifyQueueUpdate(channels, b, "queue_update")
                   ELSE channels
    /\ UNCHANGED <<clients, sending>>
    /\ UNCHANGED <<stopChan, loops>>

OpenCounter(c, staff) ==
    LET err == OpenCounterErr(c) IN
    /\ counters' = IF err = "ok" THEN UpdateCounterStatus(counters, c, "OPEN", staff)
                   ELSE counters
    /\ Returns("OpenCounter", <<c>>, err)
    /\ UNCHANGED <<tickets, slots, clock, pend>>
    /\ channels' = IF err = "ok" THEN NotifyQueueUpdate(channels, CounterBranch(c), "counter_update")
                   ELSE channels
    /\ UNCHANGED <<clients, sending>>
    /\ UNCHANGED <<stopChan, loops>>

CloseCounter(c) ==
    LET err == CloseCounterErr(c) IN
    /\ counters' = IF err = "ok" THEN UpdateCounterStatus(counters, c, "CLOSED", 0)
                   ELSE counters
    /\ Returns("CloseCounter", <<c>>, err)
    /\ UNCHANGED <<tickets, slots, clock, pend>>
    /\ channels' = IF err = "ok" THEN NotifyQueueUpdate(channels, CounterBranch(c), "counter_update")
                   ELSE channels
    /\ UNCHANGED <<clients, sending>>
    /\ UNCHANGED <<stopChan, loops>>

BreakCounter(c) ==
    LET err == BreakCounterErr(c) IN
    /\ counters' = IF err = "ok" THEN UpdateCounterStatus(counters, c, "BREAK", 0)
                   ELSE counters
    /\ Returns("BreakCounter", <<c>>, err)
    /\ UNCHANGED <<tickets, slots, clock, pend>>
    /\ channels' = IF err = "ok" THEN NotifyQueueUpdate(channels, CounterBranch(c), "counter_update")
                   ELSE channels
    /\ UNCHANGED <<clients, sending>>
    /\ UNCHANGED <<stopChan, loops>>

CallNextTicket(c, staff) ==
    LET err == CallNextTicketErr(c) IN
    /\ IF err = "ok"
       THEN \E t \in GetNextCallableTicket(CounterBranch(c), CounterService(c), Today) :
               /\ tickets' = UpdateTicketStatus(tickets, t, CallUpdates(c, staff, clock))
               /\ channels' = NotifyTicketCalled(channels, CounterBranch(c), tickets[t].user)
       ELSE UNCHANGED <<tickets, channels>>
    /\ Returns("CallNextTicket", <<c>>, err)
    /\ UNCHANGED <<counters, slots, clock, pend>>
    /\ UNCHANGED <<clients, sending>>
    /\ UNCHANGED <<stopChan, loops>>

CallSpecificTicket(t, c, staff) ==
    LET err == CallSpecificTicketErr(t, c) IN
    /\ tickets' = IF err = "ok"
                  THEN UpdateTicketStatus(tickets, t, CallUpdates(c, staff, clock))
                  ELSE tickets
    /\ Returns("CallSpecificTicket", <<t, c>>, err)
    /\ UNCHANGED <<counters, slots, clock, pend>>
    /\ channels' = IF err = "ok" THEN NotifyTicketCalled(channels, CounterBranch(c), tickets[t].user)
                   ELSE channels
    /\ UNCHANGED <<clients, sending>>
    /\ UNCHANGED <<stopChan, loops>>

RecallTicket(t) ==
    LET err == RecallTicketErr(t) IN
    /\ tickets' = IF err = "ok" THEN UpdateTicketStatus(tickets, t, RecallUpdates(clock))
                  ELSE tickets
    /\ Returns("RecallTicket", <<t>>, err)
    /\ UNCHANGED <<counters, slots, clock, pend>>
    /\ channels' = IF err = "ok" /\ tickets[t].counter # 0
                   THEN NotifyTicketCalled(channels, tickets[t].branch, tickets[t].user)
                   ELSE channels
    /\ UNCHANGED <<clients, sending>>
    /\ UNCHANGED <<stopChan, loops>>

ServeTicket(t, staff) ==
    LET err == ServeTicketErr(t) IN
    /\ tickets' = IF err = "ok"
                  THEN UpdateTicketStatus(tickets, t, ServeUpdates(staff, clock))
                  ELSE tickets
    /\ Returns("ServeTicket", <<t>>, err)
    /\ UNCHANGED <<counters, slots, clock, pend>>
    /\ channels' = IF err = "ok" THEN NotifyQueueUpdate(channels, tickets[t].branch, "queue_update")
                   ELSE channels
    /\ UNCHANGED <<clients, sending>>
    /\ UNCHANGED <<stopChan, loops>>

CompleteTicket(t) ==
    LET err == CompleteTicketErr(t) IN
    /\ tickets' = IF err = "ok" THEN UpdateTicketStatus(tickets, t, CompleteUpdates(clock))
                  ELSE tickets
    /\ Returns("CompleteTicket", <<t>>, err)
    /\ UNCHANGED <<counters, slots, clock, pend>>
    /\ channels' = IF err = "ok" THEN NotifyQueueUpdate(channels, tickets[t].branch, "queue_update")
                   ELSE channels
    /\ UNCHANGED <<clients, sending>>
    /\ UNCHANGED <<stopChan, loops>>

SkipTicket(t) ==
    LET err == SkipTicketErr(t) IN
    /\ t \in TicketIDs => tickets[t].skip < MaxSkips
    /\ tickets' = IF err = "ok"
                  THEN UpdateTicketStatus(tickets, t, SkipUpdates(tickets[t].skip, clock))
                  ELSE tickets
    /\ Returns("SkipTicket", <<t>>, err)
    /\ UNCHANGED <<counters, slots, clock, pend>>
    /\ channels' = IF err = "ok" THEN NotifyQueueUpdate(channels, tickets[t].branch, "queue_update")
                   ELSE channels
    /\ UNCHANGED <<clients, sending>>
    /\ UNCHANGED <<stopChan, loops>>

TransferTicket(t, c) ==
    LET err == TransferTicketErr(t, c) IN
    /\ tickets' = IF err = "ok" THEN UpdateTicketStatus(tickets, t, TransferUpdates(c))
                  ELSE tickets
    /\ Returns("TransferTicket", <<t, c>>, err)
    /\ UNCHANGED <<counters, slots, clock, pend>>
    /\ channels' = IF err = "ok" THEN NotifyQueueUpdate(channels, tickets[t].branch, "queue_update")
                   ELSE channels
    /\ UNCHANGED <<clients, sending>>
    /\ UNCHANGED <<stopChan, loops>>

CheckinBooking(t) ==
    LET err == CheckinBookingErr(t) IN
    /\ tickets' = IF err = "ok" THEN UpdateTicketStatus(tickets, t, CheckinUpdates)
                  ELSE tickets
    /\ Returns("CheckinBooking", <<t>>, err)
    /\ UNCHANGED <<counters, slots, clock, pend>>
    /\ channels' = IF err = "ok" THEN NotifyQueueUpdate(channels, tickets[t].branch, "queue_update")
                   ELSE channels
    /\ UNCHANGED <<clients, sending>>
    /\ UNCHANGED <<stopChan, loops>>

CreateBooking(u, b, s, d, t) ==
    LET err == CreateBookingErr(u, b, s, d, t) IN
    /\ err = "ok" => CanCreate
    /\ IF err = "ok"
       THEN /\ tickets' = CreateTicket(tickets,
                     BookingRow(u, b, s, d, t, GetNextTicketNumber(b, "BOOKING", d), clock))
            /\ clock' = clock + 1
            /\ \E failed \in BOOLEAN :
                  slots' = IF failed THEN slots
                           ELSE IncrementBookingSlot(slots,
                                    CHOOSE k \in GetBookingSlot(b, s, d, t) : TRUE)
       ELSE UNCHANGED <<tickets, slots, clock>>
    /\ Returns("CreateBooking", <<u, b, s, d, t>>, err)
    /\ UNCHANGED <<counters, pend>>
    /\ UNCHANGED hubvars
    /\ UNCHANGED <<stopChan, loops>>

CancelBooking(t, u) ==
    LET err == CancelBookingErr(t, u) IN
    /\ IF err = "ok"
       THEN /\ tickets' = UpdateTicketStatus(tickets, t, CancelUpdates(clock))
            /\ \E failed \in BOOLEAN :
                  slots' = IF failed \/ tickets[t].slot = 0 THEN slots
                           ELSE DecrementBookingSlot(slots, tickets[t].branch,
                                    tickets[t].service, tickets[t].date, tickets[t].slot)
       ELSE UNCHANGED <<tickets, slots>>
    /\ Returns("CancelBooking", <<t, u>>, err)
    /\ UNCHANGED <<counters, clock, pend>>
    /\ UNCHANGED hubvars
    /\ UNCHANGED <<stopChan, loops>>

RECURSIVE CancelAll(_, _, _)
CancelAll(tk, list, now) ==
    IF list = <<>> THEN tk
    ELSE CancelAll(UpdateTicketStatus(tk, Head(list).id, CancelUpdates(now)), Tail(list), now)

RECURSIVE ReleaseAll(_, _, _)
ReleaseAll(sl, list, failed) ==
    IF list = <<>> THEN sl
    ELSE LET h == Head(list) IN
         ReleaseAll(IF h.id \in failed \/ h.d = 0 \/ h.t = 0 THEN sl
                    ELSE DecrementBookingSlot(sl, h.b, h.s, h.d, h.t),
                    Tail(list), failed)

\* the channels after the two notifications of each listed ticket
RECURSIVE CancelNotified(_, _)
CancelNotified(ch, list) ==
    IF list = <<>> THEN ch
    ELSE LET h == Head(list) IN
         CancelNotified(NotifyQueueUpdate(NotifyBookingCancelled(ch, tickets[h.id].user),
                                          h.b, "queue_update"),
                        Tail(list))

\* one whole run of the no-show sweep
autoCancelExpiredBookings ==
    LET expired == GetExpiredBookingTickets(Today, clock, AutoCancelMinutes) IN
    /\ "runAutoCancelLoop" \in loops
    /\ expired # {}
    /\ ~SweepRunning(AutoCancelOps)
    /\ tickets' = CancelAll(tickets, InIDOrder(expired), clock)
    /\ \E failed \in SUBSET expired :
          slots' = ReleaseAll(slots, InIDOrder(expired), failed)
    /\ channels' = CancelNotified(channels, InIDOrder(expired))
    /\ Returns("autoCancelExpiredBookings", <<>>, "ok")
    /\ UNCHANGED <<counters, clock, pend>>
    /\ UNCHANGED <<clients, sending>>
    /\ UNCHANGED <<stopChan, loops>>

RECURSIVE FlagAll(_, _)
FlagAll(tk, list) ==
    IF list = <<>> THEN tk
    ELSE LET h     == Head(list)
             ahead == GetWaitingCount(h.b, h.s, Today, h.at)
         IN  FlagAll(IF ahead <= NearlyThreshold /\ ahead > 0
                     THEN UpdateTicketStatus(tk, h.id, NotifySentUpdates)
                     ELSE tk,
                     Tail(list))

\* the channels after the alert of each listed ticket that is near its turn
RECURSIVE NearlyNotified(_, _)
NearlyNotified(ch, list) ==
    IF list = <<>> THEN ch
    ELSE LET h     == Head(list)
             ahead == GetWaitingCount(h.b, h.s, Today, h.at)
         IN  NearlyNotified(IF ahead <= NearlyThreshold /\ ahead > 0
                            THEN NotifyNearlyTurn(ch, tickets[h.id].user)
                            ELSE ch,
                            Tail(list))

\* one whole run of the near-turn sweep
checkNearlyTurn ==
    /\ "runNearlyTurnLoop" \in loops
    /\ GetUnnotifiedWaitingTickets(Today) # {}
    /\ ~SweepRunning({"checkNearlyTurn"})
    /\ tickets' = FlagAll(tickets, InIDOrder(GetUnnotifiedWaitingTickets(Today)))
    /\ channels' = NearlyNotified(channels, InIDOrder(GetUnnotifiedWaitingTickets(Today)))
    /\ Returns("checkNearlyTurn", <<>>, "ok")
    /\ UNCHANGED <<counters, slots, clock, pend>>
    /\ UNCHANGED <<clients, sending>>
    /\ UNCHANGED <<stopChan, loops>>

\* ------------------------------------------------- SSEHub: the primitives
\* h.mu.Lock(): granted when no delivery holds the read lock.  Register and
\* Unregister run under it from beginning to end.
Lock == sending = {}

Register(client) ==
    /\ Lock
    /\ Len(channels) < MaxClients
    /\ LET id == Len(channels) + 1 IN
       /\ channels' = Append(channels, NewChannel)
       /\ clients'  = [ i \in DOMAIN clients \cup {id} |->
                           IF i = id THEN client ELSE clients[i] ]
    /\ UNCHANGED <<stopChan, loops, tickets, counters, slots, clock, pend, ret, sending>>

\* Unregister that closes the channel and leaves the entry in the map.
UnregisteredKeepingEntry(cl, ch, id) ==
    IF id \in DOMAIN cl
    THEN << cl, [ ch EXCEPT ![id].closes = @ + 1 ] >>
    ELSE << cl, ch >>

\* The map and the channels after Unregister(id).
Unregistered(cl, ch, id) ==
    IF id \in DOMAIN cl
    THEN << [ i \in DOMAIN cl \ {id} |-> cl[i] ],
            [ ch EXCEPT ![id].closes = @ + 1 ] >>
    ELSE << cl, ch >>

Unregister(id) ==
    /\ Lock
    /\ clients'  = Unregistered(clients, channels, id)[1]
    /\ channels' = Unregistered(clients, channels, id)[2]
    /\ UNCHANGED <<stopChan, loops, tickets, counters, slots, clock, pend, ret, sending>>

\* The stream handler takes the next event off its channel.  It unregisters
\* as it leaves, so it reads only while its client is registered.
Receive(id) ==
    /\ id \in DOMAIN clients
    /\ channels[id].buf # << >>
    /\ channels' = [ channels EXCEPT ![id].buf = Tail(@) ]
    /\ UNCHANGED <<stopChan, loops, tickets, counters, slots, clock, pend, ret, clients, sending>>

\* h.mu.RLock() and the start of the range over the map.  `sent` and
\* `dropped` are history: the clients whose select took either branch.
RLock(kind, key, event) ==
    /\ Cardinality(sending) < MaxSending
    /\ LET caller == CHOOSE n \in 1..MaxSending : \A r \in sending : r.caller # n IN
       sending' = sending \cup
           { [ caller |-> caller, kind |-> kind, key |-> key, event |-> event,
               todo |-> DOMAIN clients, sent |-> {}, dropped |-> {} ] }
    /\ UNCHANGED <<stopChan, loops, tickets, counters, slots, clock, pend, ret, clients, channels>>

BroadcastToBranch(branchID, name) ==
    RLock("BroadcastToBranch", branchID, SSEEvent(name, branchID))

SendToUser(userID, name) ==
    RLock("SendToUser", userID, SSEEvent(name, 0))

BroadcastToTV(branchID, name) ==
    RLock("BroadcastToTV", branchID, SSEEvent(name, branchID))

\* One turn of the loop: the test, and for a client that passes it the
\* select.
Deliver_Select(r, id) ==
    /\ r \in sending /\ id \in r.todo
    /\ LET match == Matches(r.kind, clients[id], r.key)
           open  == channels[id].closes = 0
           room  == Len(channels[id].buf) < ChanCap
       IN  /\ channels' = IF match
                          THEN [ channels EXCEPT ![id] = Select(@, r.event) ]
                          ELSE channels
           /\ sending' = (sending \ {r}) \cup
                  { [ r EXCEPT !.todo = @ \ {id},
                               !.sent = IF match /\ open /\ room THEN @ \cup {id} ELSE @,
                               !.dropped = IF match /\ open /\ ~room THEN @ \cup {id} ELSE @ ] }
    /\ UNCHANGED <<stopChan, loops, tickets, counters, slots, clock, pend, ret, clients>>

\* the loop is over: the deferred h.mu.RUnlock() and the return
Deliver_RUnlock(r) ==
    /\ r \in sending /\ r.todo = {}
    /\ sending' = sending \ {r}
    /\ UNCHANGED <<stopChan, loops, tickets, counters, slots, clock, pend, ret, clients, channels>>

\* ------------------------------------------------------- slot generation
GenDates  == 1..LastDate
TimeSlots == <<1, 2>>           \* the time-of-day template, in its order

\* time.Weekday of a day, Sunday = 0 .. Saturday = 6; day 1 is a Thursday
Weekday(d) == (d + 3) % 7

\* GetBookingSlot against the given rows: is there a row with this key
SlotExists(sl, b, s, d, t) ==
    \E k \in DOMAIN sl : /\ sl[k].branch = b /\ sl[k].service = s
                         /\ sl[k].date = d /\ sl[k].time = t

\* The loop run without the check for an existing row.
GeneratedSlotsNoSkip(sl, b, s, start, end) ==
    LET L       == Len(TimeSlots)
        n       == IF end < start THEN 0 ELSE (end - start + 1) * L
        day(i)  == start + ((i - 1) \div L)
        time(i) == TimeSlots[((i - 1) % L) + 1]
        New(i)  == Weekday(day(i)) \notin {6, 0}
        sel     == SelectSeq([ i \in 1..n |-> i ], New)
    IN  sl \o [ j \in 1..Len(sel) |-> NewSlot(b, s, day(sel[j]), time(sel[j])) ]

\* The rows after GenerateBookingSlots: day by day from start to end,
\* weekends skipped, template entry by template entry, a row is appended for
\* every key that has none; the rows there already are not touched.
GeneratedSlots(sl, b, s, start, end) ==
    LET L       == Len(TimeSlots)
        n       == IF end < start THEN 0 ELSE (end - start + 1) * L
        day(i)  == start + ((i - 1) \div L)
        time(i) == TimeSlots[((i - 1) % L) + 1]
        New(i)  == /\ Weekday(day(i)) \notin {6, 0}
                   /\ ~SlotExists(sl, b, s, day(i), time(i))
        sel     == SelectSeq([ i \in 1..n |-> i ], New)
    IN  sl \o [ j \in 1..Len(sel) |-> NewSlot(b, s, day(sel[j]), time(sel[j])) ]

GenerateBookingSlotsErr(start, end) ==
    IF end < start THEN "ErrEndBeforeStart" ELSE "ok"

GenerateBookingSlots(b, s, start, end) ==
    LET err == GenerateBookingSlotsErr(start, end) IN
    /\ slots' = IF err = "ok" THEN GeneratedSlots(slots, b, s, start, end) ELSE slots
    /\ Returns("GenerateBookingSlots", <<b, s, start, end>>, err)
    /\ UNCHANGED <<tickets, counters, clock, pend>>
    /\ UNCHANGED hubvars
    /\ UNCHANGED <<stopChan, loops>>

\* -------------------------------------------------------------- dispatch
\* One counter and the walk-ins of its service.  A handler runs to its end
\* or is suspended between its reads and its write while others run.
Next ==
    \/ \E u \in Members : CreateWalkin(u, 1, 1)
    \/ \E staff \in StaffUsers : OpenCounter(1, staff)
    \/ \E staff \in StaffUsers : CallNextTicket(1, staff)
    \/ \E t \in TicketIDs, staff \in StaffUsers : CallSpecificTicket(t, 1, staff)
    \/ \E t \in TicketIDs, staff \in StaffUsers : ServeTicket(t, staff)
    \/ \E t \in TicketIDs : CompleteTicket(t)
    \/ \E t \in TicketIDs : SkipTicket(t)
    \/ \E t \in TicketIDs : TransferTicket(t, 1)
    \/ \E t \in TicketIDs : RecallTicket(t)
    \/ \E staff \in StaffUsers : CallNextTicket_Check(1, staff)
    \/ \E r \in Pending : CallNextTicket_Update(r)
    \/ \E t \in TicketIDs, staff \in StaffUsers : CallSpecificTicket_Check(t, 1, staff)
    \/ \E r \in Pending : CallSpecificTicket_Update(r)
    \/ \E t \in TicketIDs, staff \in StaffUsers : ServeTicket_Check(t, staff)
    \/ \E r \in Pending : ServeTicket_Update(r)
    \/ \E t \in TicketIDs : CompleteTicket_Check(t)
    \/ \E r \in Pending : CompleteTicket_Update(r)
    \/ \E t \in TicketIDs : SkipTicket_Check(t)
    \/ \E r \in Pending : SkipTicket_Update(r)
    \/ \E t \in TicketIDs : TransferTicket_Check(t, 1)
    \/ \E r \in Pending : TransferTicket_Update(r)
    \/ \E t \in TicketIDs : RecallTicket_Check(t)
    \/ \E r \in Pending : RecallTicket_Update(r)

Spec == Init /\ [][Next]_vars

\* --------------------------------------------------------------- booking
\* One slot of today, the members booking and cancelling it, and the
\* no-show sweep, each run to its end or suspended between two statements;
\* beside them walk-ins of the same service and the counter that calls both.
BookingNext ==
    \/ Tick
    \/ \E u \in Members : CreateBooking(u, 1, 1, Today, 1)
    \/ \E t \in TicketIDs, u \in Members : CancelBooking(t, u)
    \/ autoCancelExpiredBookings
    \/ \E u \in Members : CreateWalkin(u, 1, 1)
    \/ \E staff \in StaffUsers : OpenCounter(1, staff)
    \/ \E staff \in StaffUsers : CallNextTicket(1, staff)
    \/ \E t \in TicketIDs : CompleteTicket(t)
    \/ checkNearlyTurn
    \/ \E u \in Members : CreateWalkin_Check(u, 1, 1)
    \/ \E r \in Pending : CreateWalkin_Insert(r)
    \/ checkNearlyTurn_Query
    \/ \E r \in Pending : checkNearlyTurn_Item(r)
    \/ \E u \in Members : CreateBooking_Check(u, 1, 1, Today, 1)
    \/ \E r \in Pending : CreateBooking_Insert(r)
    \/ \E r \in Pending : CreateBooking_Increment(r)
    \/ \E t \in TicketIDs, u \in Members : CancelBooking_Check(t, u)
    \/ \E r \in Pending : CancelBooking_Update(r)
    \/ \E r \in Pending : CancelBooking_Decrement(r)
    \/ autoCancelExpiredBookings_Query
    \/ \E r \in Pending : autoCancelExpiredBookings_Update(r)
    \/ \E r \in Pending : autoCancelExpiredBookings_Decrement(r)

BookingSpec == Init /\ [][BookingNext]_vars

\* ------------------------------------------------------------ one at a time
\* Calls made one after the other, each run to its end, with what each
\* returned.  Ticket ids range over those not yet issued as well.
SeqInit ==
    /\ tickets  = <<>>
    /\ counters = [ c \in {1, 2, 3} |-> [ status |-> "CLOSED", staff |-> 0 ] ]
    /\ slots    = << NewSlot(1, 1, Today, 1), NewSlot(1, 1, Today + 1, 1) >>
    /\ clock    = 1
    /\ pend     = EmptyBag
    /\ ret      = NoRet
    /\ NewSSEHub
    /\ stopChan = "open"
    /\ loops    = Loops

SeqNext ==
    \/ \E u \in Members : CreateWalkin(u, 1, 1)
    \/ \E u \in Members : CreateBooking(u, 1, 1, Today + 1, 1)
    \/ \E staff \in StaffUsers : OpenCounter(1, staff)
    \/ CloseCounter(1)
    \/ BreakCounter(1)
    \/ \E staff \in StaffUsers : CallNextTicket(1, staff)
    \/ \E t \in 1..MaxTickets, staff \in StaffUsers : CallSpecificTicket(t, 1, staff)
    \/ \E t \in 1..MaxTickets, staff \in StaffUsers : ServeTicket(t, staff)
    \/ \E t \in 1..MaxTickets : CompleteTicket(t)
    \/ \E t \in 1..MaxTickets : RecallTicket(t)

SeqSpec == SeqInit /\ [][SeqNext]_vars

\* Bookings made and cancelled one after the other, for either day and for
\* a slot time that was generated (1) and one that was not (2).
ReserveNext ==
    \/ \E u \in Members, d \in Dates, t \in SlotTimes \cup {2} : CreateBooking(u, 1, 1, d, t)
    \/ \E t \in 1..MaxTickets, u \in Members : CancelBooking(t, u)
    \/ \E t \in 1..MaxTickets : CheckinBooking(t)

ReserveSpec == SeqInit /\ [][ReserveNext]_vars

\* Tickets taken at the door and booked for today, called in turn at one
\* counter, served and completed, one call after the other.
TakeNext ==
    \/ \E u \in Members : CreateWalkin(u, 1, 1)
    \/ \E u \in Members : CreateBooking(u, 1, 1, Today, 1)
    \/ \E staff \in StaffUsers : OpenCounter(1, staff)
    \/ \E staff \in StaffUsers : CallNextTicket(1, staff)
    \/ \E t \in 1..MaxTickets, staff \in StaffUsers : ServeTicket(t, staff)
    \/ \E t \in 1..MaxTickets : CompleteTicket(t)

TakeSpec == SeqInit /\ [][TakeNext]_vars

\* The same calls where the counter, once open, goes on calling the next
\* ticket whenever it can and the ticket at it is completed in the end.
FairTakeSpec ==
    /\ Init /\ [][TakeNext]_vars
    /\ WF_vars(\E staff \in StaffUsers : CallNextTicket(1, staff))
    /\ WF_vars(\E t \in 1..MaxTickets : CompleteTicket(t))

\* Slots generated by the administrator over ranges of days, and booked by
\* members in between.
GenNext ==
    \/ \E start \in GenDates, end \in GenDates : GenerateBookingSlots(1, 1, start, end)
    \/ \E u \in Members, j \in DOMAIN TimeSlots :
          CreateBooking(u, 1, 1, Today, TimeSlots[j])

GenSpec == Init /\ [][GenNext]_vars

\* Tickets called by id at one counter, recalled, served and completed, one
\* call after the other, for tickets in any status.
StatusNext ==
    \/ \E u \in Members : CreateWalkin(u, 1, 1)
    \/ \E staff \in StaffUsers : OpenCounter(1, staff)
    \/ \E t \in 1..MaxTickets, staff \in StaffUsers : CallSpecificTicket(t, 1, staff)
    \/ \E t \in 1..MaxTickets : RecallTicket(t)
    \/ \E t \in 1..MaxTickets, staff \in StaffUsers : ServeTicket(t, staff)
    \/ \E t \in 1..MaxTickets : CompleteTicket(t)

StatusSpec == SeqInit /\ [][StatusNext]_vars

\* Tickets called at one counter and skipped, one call after the other, until
\* they are skipped out.
RecycleNext ==
    \/ \E u \in Members : CreateWalkin(u, 1, 1)
    \/ \E u \in Members : CreateBooking(u, 1, 1, Today, 1)
    \/ \E staff \in StaffUsers : OpenCounter(1, staff)
    \/ \E staff \in StaffUsers : CallNextTicket(1, staff)
    \/ \E t \in 1..MaxTickets : SkipTicket(t)

RecycleSpec == SeqInit /\ [][RecycleNext]_vars

\* Tickets taken at the door, called at counter 1 and transferred to a
\* counter of the same or of another service, one call after the other.
TransferNext ==
    \/ \E u \in Members : CreateWalkin(u, 1, 1)
    \/ \E staff \in StaffUsers : OpenCounter(1, staff)
    \/ \E staff \in StaffUsers : CallNextTicket(1, staff)
    \/ \E t \in 1..MaxTickets, c \in CounterIDs : TransferTicket(t, c)
    \/ \E t \in 1..MaxTickets : CompleteTicket(t)

TransferSpec == SeqInit /\ [][TransferNext]_vars

\* Streams opened and closed, their handlers reading, and the three
\* deliveries made by the queue and the sweeps, in any interleaving.
HubNext ==
    \/ \E client \in Connecting : Register(client)
    \/ \E id \in ClientIDs : Unregister(id)
    \/ \E id \in ClientIDs : Receive(id)
    \/ \E b \in Branches : BroadcastToBranch(b, "queue_update")
    \/ \E u \in Members : SendToUser(u, "ticket_called")
    \/ \E b \in Branches : BroadcastToTV(b, "queue_update")
    \/ \E r \in sending : \E id \in r.todo : Deliver_Select(r, id)
    \/ \E r \in sending : Deliver_RUnlock(r)

HubSpec == Init /\ [][HubNext]_vars

\* ------------------------------------------------------------- no-shows
\* Members book today's slot or take a ticket at the door, connect and read
\* their streams; time passes and the no-show sweep runs, each run to its
\* end.
SweepNext ==
    \/ \E client \in Connecting : Register(client)
    \/ \E id \in ClientIDs : Unregister(id)
    \/ \E id \in ClientIDs : Receive(id)
    \/ Tick
    \/ \E u \in Members : CreateWalkin(u, 1, 1)
    \/ \E u \in Members : CreateBooking(u, 1, 1, Today, 1)
    \/ \E t \in TicketIDs, u \in Members : CancelBooking(t, u)
    \/ autoCancelExpiredBookings

SweepSpec == Init /\ [][SweepNext]_vars

\* ------------------------------------------------------------ two counters
\* The two LOAN counters of HQ, each calling the next ticket: a call runs to
\* its end or is suspended between its selection and its update while the
\* other counter calls.
CountersNext ==
    \/ \E u \in Members : CreateWalkin(u, 1, 1)
    \/ \E c \in {1, 2}, staff \in StaffUsers : OpenCounter(c, staff)
    \/ \E c \in {1, 2}, staff \in StaffUsers : CallNextTicket(c, staff)
    \/ \E c \in {1, 2}, staff \in StaffUsers : CallNextTicket_Check(c, staff)
    \/ \E r \in Pending : CallNextTicket_Update(r)
    \/ \E t \in TicketIDs : CompleteTicket(t)

CountersSpec == Init /\ [][CountersNext]_vars

\* ------------------------------------------------------------ two desks
\* A LOAN counter and a DEPOSIT counter of HQ, tickets of both services, and
\* the officers calling the next ticket or a ticket by its id.
DesksNext ==
    \/ \E u \in Members, s \in ServiceTypes : CreateWalkin(u, 1, s)
    \/ \E c \in {1, 3}, staff \in StaffUsers : OpenCounter(c, staff)
    \/ \E c \in {1, 3}, staff \in StaffUsers : CallNextTicket(c, staff)
    \/ \E t \in 1..MaxTickets, c \in {1, 3}, staff \in StaffUsers :
          CallSpecificTicket(t, c, staff)
    \/ \E t \in 1..MaxTickets, staff \in StaffUsers : ServeTicket(t, staff)
    \/ \E t \in 1..MaxTickets : CompleteTicket(t)

DesksSpec == Init /\ [][DesksNext]_vars

\* ---------------------------------------------------------------- shutdown
\* Bookings and walk-ins of today, the passing of time, the two sweeps that
\* write, each suspended between its statements, and Stop.  A step of a
\* sweep under way is taken in the end, and so is a case of a select that
\* is ready again and again (the runtime picks among the ready cases at
\* random).
LoopNext ==
    \/ Tick
    \/ \E u \in Members : CreateWalkin(u, 1, 1)
    \/ \E u \in Members : CreateBooking(u, 1, 1, Today, 1)
    \/ autoCancelExpiredBookings_Query
    \/ \E r \in Pending : autoCancelExpiredBookings_Update(r)
    \/ \E r \in Pending : autoCancelExpiredBookings_Decrement(r)
    \/ checkNearlyTurn_Query
    \/ \E r \in Pending : checkNearlyTurn_Item(r)
    \/ Stop
    \/ \E l \in Loops : CaseStopChan(l)

LoopSpec ==
    /\ Init /\ [][LoopNext]_vars
    /\ WF_vars(\E r \in Pending : \/ autoCancelExpiredBookings_Update(r)
                                  \/ autoCancelExpiredBookings_Decrement(r)
                                  \/ checkNearlyTurn_Item(r))
    /\ \A l \in Loops : SF_vars(CaseStopChan(l))

\* ------------------------------------------------------------ live updates
\* Display boards of either branch connect and read their streams while
\* every call that changes a ticket or a counter is made at HQ, and the
\* no-show sweep runs, one after the other and each run to its end.  Member 1
\* comes to the door, member 2 books.
NotifyNext ==
    \/ \E client \in Connecting : client.isTV /\ Register(client)
    \/ \E id \in ClientIDs : Receive(id)
    \/ CreateWalkin(1, 1, 1)
    \/ CreateBooking(2, 1, 1, Today, 1)
    \/ \E t \in TicketIDs : CancelBooking(t, 2)
    \/ autoCancelExpiredBookings
    \/ \E staff \in StaffUsers : OpenCounter(1, staff)
    \/ CloseCounter(1)
    \/ BreakCounter(1)
    \/ \E staff \in StaffUsers : CallNextTicket(1, staff)
    \/ \E t \in TicketIDs, staff \in StaffUsers : CallSpecificTicket(t, 1, staff)
    \/ \E t \in TicketIDs : RecallTicket(t)
    \/ \E t \in TicketIDs, staff \in StaffUsers : ServeTicket(t, staff)
    \/ \E t \in TicketIDs : CompleteTicket(t)
    \/ \E t \in TicketIDs : SkipTicket(t)
    \/ \E t \in TicketIDs : TransferTicket(t, 1)

NotifySpec == Init /\ [][NotifyNext]_vars

\* ================================================================ claims

\* the tickets a counter is handling
BoundTo(c) ==
    { i \in TicketIDs : /\ tickets[i].counter = c
                        /\ tickets[i].status \in {"CALLING", "SERVING"} }

\* C1: in every reachable state, under any interleaving of CallNext,
\* CallSpecific, Serve, Complete, Skip and Transfer, each counter has at
\* most one ticket in status CALLING or SERVING bound to it.
C1_OneTicketPerCounter ==
    \A c \in CounterIDs : Cardinality(BoundTo(c)) <= 1

\* C3: once a ticket is COMPLETED or CANCELLED, no later step changes any of
\* its fields.
C3_TerminalImmutable ==
    [][ \A i \in TicketIDs :
           tickets[i].status \in TerminalStatuses => tickets'[i] = tickets[i] ]_vars

DocumentedEdges ==
    { <<"WAITING", "CALLING">>, <<"CALLING", "SERVING">>, <<"CALLING", "COMPLETED">>,
      <<"SERVING", "COMPLETED">>, <<"CALLING", "WAITING">>, <<"WAITING", "CANCELLED">>,
      <<"CALLING", "CANCELLED">> }

\* C4: every change of a ticket's status is one of the documented edges.
C4_DocumentedEdgesOnly ==
    [][ \A i \in TicketIDs :
           tickets'[i].status # tickets[i].status
              => <<tickets[i].status, tickets'[i].status>> \in DocumentedEdges ]_vars

\* C6: a ticket's SkipCount never decreases, and a ticket whose SkipCount is
\* 3 has status CANCELLED.
C6_SkipCountMonotone ==
    /\ [][ \A i \in TicketIDs : tickets'[i].skip >= tickets[i].skip ]_vars
    /\ [](\A i \in TicketIDs : tickets[i].skip = SkipLimit => tickets[i].status = "CANCELLED")

\* C2: for every booking slot, in every reachable state and under any
\* interleaving of concurrent Reserve and Release calls,
\* 0 <= CurrentCount <= MaxCapacity.
C2_SlotCountInRange ==
    \A k \in SlotIDs : 0 <= slots[k].cur /\ slots[k].cur <= slots[k].max

\* the WAITING tickets of a branch, service and date
WaitingIn(b, s, d) ==
    { i \in TicketIDs : /\ tickets[i].branch = b /\ tickets[i].service = s
                        /\ tickets[i].date = d /\ tickets[i].status = "WAITING" }

\* C5: for every branch, service and date, NextCallable returns only WAITING
\* tickets of that branch, service and date, returns none exactly when there
\* is none, and what it returns has the highest Priority among them and,
\* among those of that Priority, the earliest issue time.
C5_NextCallable ==
    \A b \in Branches, s \in ServiceTypes, d \in Dates :
        LET got == GetNextCallableTicket(b, s, d) IN
        /\ got \subseteq WaitingIn(b, s, d)
        /\ got = {} <=> WaitingIn(b, s, d) = {}
        /\ \A r \in got, w \in WaitingIn(b, s, d) :
              /\ tickets[r].priority >= tickets[w].priority
              /\ tickets[r].priority = tickets[w].priority
                    => tickets[r].issuedAt <= tickets[w].issuedAt

\* C5's case: a Priority-0 walk-in and a later-issued Priority-10 booking
\* both WAITING, and NextCallable returns the booking.
C5_Witness ==
    \E a, bk \in TicketIDs :
        /\ {a, bk} \subseteq WaitingIn(1, 1, Today)
        /\ tickets[a].qtype = "WALKIN" /\ tickets[a].priority = 0
        /\ tickets[bk].qtype = "BOOKING" /\ tickets[bk].priority = 10
        /\ tickets[a].issuedAt < tickets[bk].issuedAt
        /\ GetNextCallableTicket(1, 1, Today) = {bk}

\* C7: CallNext on a counter fails with CounterClosed when the counter is
\* not OPEN, with a busy error when the counter already has a CALLING or
\* SERVING ticket, and with NoWaitingTicket when no WAITING ticket exists for
\* the counter's branch and service; a failing call changes no ticket and no
\* counter.
C7_CallNextFailures ==
    [][ ret'.op = "CallNextTicket" =>
          LET c       == ret'.args[1]
              open    == counters[c].status = "OPEN"
              busy    == BoundTo(c) # {}
              waiting == { i \in TicketIDs : /\ tickets[i].branch = CounterBranch(c)
                                             /\ tickets[i].service = CounterService(c)
                                             /\ tickets[i].status = "WAITING" }
          IN  /\ ~open => ret'.err = "ErrCounterNotOpen"
              /\ open /\ busy => ret'.err = "ErrCounterBusy"
              /\ open /\ ~busy /\ waiting = {} => ret'.err = "ErrNoWaitingTicket"
              /\ ret'.err # "ok" => tickets' = tickets /\ counters' = counters ]_vars

\* the active tickets a member holds for a branch, service and date
HeldBy(u, b, s, d) ==
    { i \in TicketIDs : /\ tickets[i].user = u /\ tickets[i].branch = b
                        /\ tickets[i].service = s /\ tickets[i].date = d
                        /\ tickets[i].status \in {"WAITING", "CALLING", "SERVING"} }

\* C8: Take by a member who already holds a WAITING, CALLING or SERVING
\* ticket for the same branch, service and date fails with DuplicateActive
\* and inserts no ticket.
C8_DuplicateActive ==
    [][ ret'.op = "CreateWalkin" =>
          LET u == ret'.args[1]
              b == ret'.args[2]
              s == ret'.args[3]
          IN  HeldBy(u, b, s, Today) # {}
                 => ret'.err = "ErrDuplicateQueue" /\ tickets' = tickets ]_vars

\* C8's case: a member whose ticket is being served has just been refused a
\* second one.
C8_Witness ==
    /\ ret.op = "CreateWalkin"
    /\ ret.err = "ErrDuplicateQueue"
    /\ \E i \in HeldBy(ret.args[1], ret.args[2], ret.args[3], Today) :
          tickets[i].status = "SERVING"

\* the slots generated for a branch, service, date and time label
SlotsFor(b, s, d, t) ==
    { k \in SlotIDs : /\ slots[k].branch = b /\ slots[k].service = s
                      /\ slots[k].date = d /\ slots[k].time = t }

\* the active bookings a member holds for a branch, service and date
BookedBy(u, b, s, d) ==
    { i \in HeldBy(u, b, s, d) : tickets[i].qtype = "BOOKING" }

C10_ReserveIsOneUnit ==
    [][ (ret'.op = "CreateBooking" /\ ret'.err = "ok") =>
          LET new == tickets'[Len(tickets')] IN
          /\ Len(tickets') = Len(tickets) + 1
          /\ new.status = "WAITING" /\ new.priority = 10 /\ new.qtype = "BOOKING"
          /\ \A k \in SlotIDs :
                slots'[k].cur = IF k \in SlotsFor(new.branch, new.service, new.date, new.slot)
                                THEN slots[k].cur + 1 ELSE slots[k].cur ]_vars

\* the bookings of a slot that have been cancelled
CancelledBookingsOf(k) ==
    { i \in TicketIDs : /\ tickets[i].qtype = "BOOKING"
                        /\ tickets[i].status = "CANCELLED"
                        /\ tickets[i].branch = slots[k].branch
                        /\ tickets[i].service = slots[k].service
                        /\ tickets[i].date = slots[k].date
                        /\ tickets[i].slot = slots[k].time }

\* C11: whenever a booking becomes CANCELLED, by the member or by the no-show
\* sweep and in any interleaving of the two, its slot's CurrentCount is
\* decremented exactly once: once every handler has finished, a slot has
\* been decremented as many times as it has cancelled bookings.
C11_ReleasedExactlyOnce ==
    pend = EmptyBag =>
        \A k \in SlotIDs : slots[k].released = Cardinality(CancelledBookingsOf(k))

\* the rows of a table, as a set
Rows(sl) == { sl[k] : k \in DOMAIN sl }

\* the rows of a table that have the given key
WithKey(sl, b, s, d, t) ==
    { k \in DOMAIN sl : /\ sl[k].branch = b /\ sl[k].service = s
                        /\ sl[k].date = d /\ sl[k].time = t }

Refused(op, from) ==
    /\ ret'.op = op
    /\ ret'.args[1] \in TicketIDs
    /\ tickets[ret'.args[1]].status \notin from

\* C13: CallSpecific on a ticket not in WAITING, Recall or Serve on a ticket
\* not in CALLING, and Complete on a ticket in neither CALLING nor SERVING
\* each fail with InvalidTransition (ErrInvalidTicketStatus) and leave the
\* ticket unchanged.
C13_InvalidTransition ==
    [][ (\/ Refused("CallSpecificTicket", {"WAITING"})
         \/ Refused("RecallTicket", {"CALLING"})
         \/ Refused("ServeTicket", {"CALLING"})
         \/ Refused("CompleteTicket", {"CALLING", "SERVING"}))
        => /\ ret'.err = "ErrInvalidTicketStatus"
           /\ tickets' = tickets ]_vars

\* Serve has been refused for a ticket that is already being served
C13_Witness ==
    /\ ret.op = "ServeTicket"
    /\ ret.err = "ErrInvalidTicketStatus"
    /\ ret.args[1] \in TicketIDs
    /\ tickets[ret.args[1]].status = "SERVING"

\* ticket i is WAITING for the counter's branch and service today and sorts
\* strictly before every other such ticket
BestCandidate(i, c) ==
    /\ i \in WaitingIn(CounterBranch(c), CounterService(c), Today)
    /\ \A j \in WaitingIn(CounterBranch(c), CounterService(c), Today) \ {i} :
          OrderedBefore(i, j)

\* C14: a Skip that leaves SkipCount below 3 returns the ticket to WAITING
\* with counter and caller cleared and with Priority and issue time (and
\* every other column but the skip count) unchanged, and a successful
\* CallNext made while a skipped ticket is the highest-priority,
\* earliest-issued WAITING ticket of the counter's branch and service calls
\* that ticket.
C14_SkipThenCallNext ==
    [][ /\ ( /\ ret'.op = "SkipTicket" /\ ret'.err = "ok"
             /\ tickets[ret'.args[1]].skip + 1 < SkipLimit )
           => LET t == ret'.args[1] IN
              tickets' = [ tickets EXCEPT ![t] =
                             [ tickets[t] EXCEPT !.status = "WAITING",
                                                 !.skip = tickets[t].skip + 1,
                                                 !.counter = 0,
                                                 !.calledAt = 0,
                                                 !.calledBy = 0 ] ]
        /\ ( ret'.op = "CallNextTicket" /\ ret'.err = "ok" )
           => \A i \in TicketIDs :
                 ( tickets[i].skip > 0 /\ BestCandidate(i, ret'.args[1]) )
                 => /\ tickets'[i].status = "CALLING"
                    /\ tickets'[i].counter = ret'.args[1] ]_vars

\* a booking that was skipped has been called again, ahead of a walk-in
\* that was issued before it and is still waiting
C14_Witness ==
    /\ ret.op = "CallNextTicket" /\ ret.err = "ok"
    /\ \E i \in TicketIDs, w \in TicketIDs :
          /\ tickets[i].skip > 0 /\ tickets[i].skip < SkipLimit
          /\ tickets[i].status = "CALLING" /\ tickets[i].counter = ret.args[1]
          /\ tickets[i].priority = 10
          /\ tickets[w].status = "WAITING" /\ tickets[w].priority = 0
          /\ tickets[w].issuedAt < tickets[i].issuedAt

\* C15: a ticket's branch, service category and date never change after
\* creation, over any sequence of operations including Transfer.
C15_TripleFixed ==
    [][ \A i \in TicketIDs : /\ tickets'[i].branch = tickets[i].branch
                             /\ tickets'[i].service = tickets[i].service
                             /\ tickets'[i].date = tickets[i].date ]_vars

\* C16: tickets created for the same branch, origin (WALKIN or BOOKING) and
\* date never share a ticket number, concurrent Takes and Reserves included.
C16_NumbersUnique ==
    \A i \in TicketIDs, j \in TicketIDs :
        ( /\ i # j
          /\ tickets[i].branch = tickets[j].branch
          /\ tickets[i].qtype = tickets[j].qtype
          /\ tickets[i].date = tickets[j].date )
        => tickets[i].number # tickets[j].number

\* in this step delivery r takes its turn with client id
Visits(r, id) ==
    /\ r \in sending /\ id \in r.todo
    /\ \E q \in sending' : q.caller = r.caller /\ q.todo = r.todo \ {id}

\* in this step delivery r returns
Returned(r) ==
    /\ r \in sending
    /\ \A q \in sending' : q.caller # r.caller

\* in this step a delivery of the given kind is begun
Begun(q, kind) ==
    /\ q \in sending' /\ q.kind = kind
    /\ \A r \in sending : r.caller # q.caller

Full(id) == Len(channels[id].buf) >= ChanCap

\* C17: BroadcastToBranch(branch, event) enqueues the event to every
\* registered subscription whose branch is the given one and whose conduit
\* is not full, a member's and a display board's alike, and to no
\* subscription of another branch: it goes through every registered
\* subscription, each turn appends the event exactly where the branch is the
\* same and there is room, and it returns only when all have had their turn.
C17_BroadcastToBranch ==
    [][ /\ \A q \in sending' : Begun(q, "BroadcastToBranch") => q.todo = DOMAIN clients
        /\ \A r \in sending : r.kind = "BroadcastToBranch" =>
              /\ \A id \in r.todo : Visits(r, id) =>
                    channels'[id].buf =
                        IF clients[id].branch = r.key /\ ~Full(id)
                        THEN Append(channels[id].buf, SSEEvent(r.event.event, r.key))
                        ELSE channels[id].buf
              /\ Returned(r) =>
                    /\ r.todo = {}
                    /\ r.sent \cup r.dropped =
                          { id \in DOMAIN clients : clients[id].branch = r.key } ]_vars

\* a broadcast is about to return having reached a member and a display
\* board of its branch
C17_Witness ==
    \E r \in sending :
        /\ r.kind = "BroadcastToBranch" /\ r.todo = {}
        /\ \E m \in r.sent, tv \in r.sent : ~clients[m].isTV /\ clients[tv].isTV

\* C18: SendToMember(memberID, event) enqueues the event only to registered
\* non-display subscriptions whose member identity is memberID: no display
\* board's and no other member's conduit changes in any of its turns.
C18_SendToUserOnly ==
    [][ \A r \in sending : r.kind = "SendToUser" =>
           /\ \A id \in r.todo :
                 ( Visits(r, id) /\ channels'[id] # channels[id] )
                 => /\ id \in DOMAIN clients
                    /\ clients[id].user = r.key
                    /\ ~clients[id].isTV
                    /\ channels'[id].buf = Append(channels[id].buf, r.event)
           /\ Returned(r) =>
                 \A id \in r.sent : clients[id].user = r.key /\ ~clients[id].isTV ]_vars

\* a personal event is about to return having reached its member and
\* passed by another subscription of the same branch
C18_Witness ==
    \E r \in sending :
        /\ r.kind = "SendToUser" /\ r.todo = {}
        /\ \E m \in r.sent, o \in DOMAIN clients \ r.sent :
              /\ clients[o].branch = clients[m].branch
              /\ channels[o].buf = << >>

\* C19: every delivery primitive returns without waiting on a subscriber:
\* while it runs, its next turn (or, all turns taken, its return) can always
\* be taken; when a matching subscription's conduit is full the event is
\* dropped for that subscription only, the conduit's contents are unchanged,
\* and the other matching subscriptions still receive the event.
C19_NeverBlocks ==
    [][ \A r \in sending :
           /\ \A id \in r.todo : ENABLED Deliver_Select(r, id)
           /\ r.todo = {} => ENABLED Deliver_RUnlock(r)
           /\ \A id \in r.todo :
                 ( Visits(r, id) /\ Matches(r.kind, clients[id], r.key) )
                 => IF Full(id)
                    THEN /\ channels' = channels
                         /\ \E q \in sending' : q.caller = r.caller /\ id \in q.dropped
                    ELSE /\ channels'[id].buf = Append(channels[id].buf, r.event)
                         /\ \E q \in sending' : q.caller = r.caller /\ id \in q.sent
           /\ Returned(r) =>
                 r.sent \cup r.dropped =
                     { id \in DOMAIN clients : Matches(r.kind, clients[id], r.key) } ]_vars

\* a delivery is about to return having dropped the event for one matching
\* subscription, whose conduit is full, and reached another
C19_Witness ==
    \E r \in sending :
        /\ r.todo = {}
        /\ \E d \in r.dropped : Full(d)
        /\ r.sent # {}

\* C20: Register and Unregister may interleave arbitrarily with the three
\* delivery primitives: no delivery ever sends on a conduit that has been
\* closed, a conduit is closed at most once (Unregister of an absent identity
\* changes nothing), and after Unregister has returned no later delivery
\* reaches that subscription.
C20_RegisterUnregisterSafe ==
    /\ [] ( /\ \A id \in DOMAIN channels : /\ channels[id].panics = 0
                                            /\ channels[id].closes <= 1
            /\ \A id \in ClientIDs \ DOMAIN clients :
                  Unregistered(clients, channels, id) = << clients, channels >> )
    /\ [][ \A id \in DOMAIN channels :
              id \notin DOMAIN clients =>
                  /\ channels'[id].closes = channels[id].closes
                  /\ Len(channels'[id].buf) <= Len(channels[id].buf) ]_vars

\* a delivery made after a subscription was unregistered is about to return
\* having reached another subscription, while the closed conduit still holds
\* an event from before
C20_Witness ==
    \E id \in DOMAIN channels, r \in sending :
        /\ id \notin DOMAIN clients /\ channels[id].closes = 1
        /\ channels[id].buf # << >>
        /\ r.todo = {} /\ r.sent # {}

\* the events of one name waiting in a channel
EventsOf(buf, name) == Cardinality({ n \in DOMAIN buf : buf[n].event = name })

\* C21: a run of the no-show sweep leaves every WAITING booking of today
\* whose slot time plus the grace has passed CANCELLED, lowers its slot's
\* CurrentCount by one for each such booking of the slot, and puts exactly
\* one booking_cancelled event on each stream its holder has open.
C21_NoShowSweep ==
    [][ autoCancelExpiredBookings =>
          \A i \in GetExpiredBookingTickets(Today, clock, AutoCancelMinutes) :
             /\ tickets'[i].status = "CANCELLED"
             /\ \A k \in GetBookingSlot(tickets[i].branch, tickets[i].service,
                                        tickets[i].date, tickets[i].slot) :
                   slots'[k].cur = slots[k].cur -
                      Cardinality({ j \in GetExpiredBookingTickets(Today, clock, AutoCancelMinutes) :
                                       tickets[j].slot = tickets[i].slot })
             /\ \A id \in DOMAIN clients :
                   SendToUserMatch(clients[id], tickets[i].user) =>
                      EventsOf(channels'[id].buf, "booking_cancelled") =
                         EventsOf(channels[id].buf, "booking_cancelled") + 1 ]_vars

\* C22: over any number of runs of the near-turn sweep a ticket is alerted
\* at most once (a flagged ticket stays flagged and is alerted no more), and
\* the alert goes out only while the ticket is WAITING, not yet flagged, and
\* the count of tickets ahead of it is above zero and at most the threshold.
C22_NearlyTurnAlert ==
    [][ \A i \in TicketIDs :
          /\ tickets[i].notify => tickets'[i].notify
          /\ (tickets'[i].notify /\ ~tickets[i].notify) =>
                /\ tickets[i].status = "WAITING"
                /\ \A ahead \in { GetWaitingCount(tickets[i].branch, tickets[i].service,
                                                   Today, tickets[i].issuedAt) } :
                      ahead > 0 /\ ahead <= NearlyThreshold ]_vars

\* C23: for every WAITING ticket of today, the count of tickets ahead that
\* the near-turn sweep and QueueAhead use equals the number of WAITING
\* tickets of its branch, service and day that the dispatch order (higher
\* priority first, then earlier issue time) places before it.
C23_AheadFollowsDispatchOrder ==
    \A i \in TicketIDs :
       (tickets[i].status = "WAITING" /\ tickets[i].date = Today) =>
          GetWaitingCount(tickets[i].branch, tickets[i].service, Today, tickets[i].issuedAt)
             = Cardinality({ j \in WaitingIn(tickets[i].branch, tickets[i].service, Today) :
                                OrderedBefore(j, i) })

\* C24: once Stop has closed stopChan every sweep loop returns in the end,
\* also one that is in the middle of a run, and a loop that has returned
\* stays so and begins no further run of its sweep.
C24_LoopsExit ==
    /\ [](stopChan = "closed" => <>(loops = {}))
    /\ [][ \A l \in Loops \ loops :
             /\ l \notin loops'
             /\ \A r \in DOMAIN pend' : r.op \in LoopOps(l) => r \in DOMAIN pend ]_vars

\* C24: a loop has returned while another, stopped in the middle of a run,
\* has not yet
C24_Witness ==
    /\ stopChan = "closed"
    /\ "runReminderLoop" \notin loops
    /\ \E l \in loops : SweepRunning(LoopOps(l))

\* C25: every step that changes or adds a ticket of a branch, or changes a
\* counter of it (a call of the queue that succeeded, or a cancellation by
\* the sweep), pushes one event for that branch into the hub: every display
\* board of the branch whose channel has room finds one more event, of that
\* branch, on it.
C25_EveryChangePushes ==
    [][ \A b \in Branches :
          ( \/ \E i \in DOMAIN tickets' :
                  /\ tickets'[i].branch = b
                  /\ i \in DOMAIN tickets => tickets'[i] # tickets[i]
            \/ \E c \in CounterIDs : CounterBranch(c) = b /\ counters'[c] # counters[c] )
          => \A id \in DOMAIN clients :
                (BroadcastToTVMatch(clients[id], b) /\ Len(channels[id].buf) < ChanCap) =>
                   /\ Len(channels'[id].buf) = Len(channels[id].buf) + 1
                   /\ channels'[id].buf[Len(channels'[id].buf)].branch = b ]_vars

C27_OneCallerPerTicket ==
    [][ \A r \in Pending :
          CallNextTicket_Update(r) =>
             ~ /\ tickets[r.tid].status \in {"CALLING", "SERVING"}
               /\ tickets[r.tid].counter # r.cid ]_vars

\* C28: in every state each member has at most one ticket in WAITING,
\* CALLING or SERVING for any one branch, service and day.
C28_OneActivePerMember ==
    \A u \in Members, b \in Branches, s \in ServiceTypes, d \in Dates :
       Cardinality(GetActiveTicketByUser(u, b, s, d)) <= 1

\* C29: in every state each slot's CurrentCount is the number of BOOKING
\* tickets held against the slot (its branch, service, day and time) that
\* are not CANCELLED.
C29_CountMatchesBookings ==
    \A k \in SlotIDs :
       slots[k].cur =
          Cardinality({ i \in TicketIDs : /\ tickets[i].qtype = "BOOKING"
                                          /\ tickets[i].status # "CANCELLED"
                                          /\ k \in GetBookingSlot(tickets[i].branch,
                                                   tickets[i].service, tickets[i].date,
                                                   tickets[i].slot) })

\* C30: in every state a ticket in CALLING or SERVING is bound to a counter
\* of the ticket's own branch and service category.
C30_CalledAtOwnCounter ==
    \A i \in TicketIDs :
       tickets[i].status \in {"CALLING", "SERVING"} =>
          /\ tickets[i].counter \in CounterIDs
          /\ CounterBranch(tickets[i].counter) = tickets[i].branch
          /\ CounterService(tickets[i].counter) = tickets[i].service

====
